---- MODULE Spec2Model ----
(***************************************************************************)
(* A model of the file sorter of src/main.py (class MediaHandler and the   *)
(* module-level accumulators it fills): scan, the thread pools of          *)
(* process_folder, handle_media and handle_archive, over a small file      *)
(* system.                                                                 *)
(*                                                                         *)
(* A character is a one-token string, a name is a sequence of characters,  *)
(* a path is a sequence of names relative to the working directory.        *)
(* Cyrillic letters are the tokens "cyr_.." (lower) and "CYR_.." (upper).  *)
(***************************************************************************)
EXTENDS Naturals, Sequences, FiniteSets, TLC

\* ------------------------------------------------------------------ bounds

\* How many times the "sort" command is issued in one process.
MaxRuns == 2

\* The longest file name given to normalize alone.
MaxLen == 4

\* ThreadPoolExecutor(max_workers=5)
max_workers == 5

\* -------------------------------------------------------------- characters

LatinLower ==
  << "a","b","c","d","e","f","g","h","i","j","k","l","m",
     "n","o","p","q","r","s","t","u","v","w","x","y","z" >>

LatinUpper ==
  << "A","B","C","D","E","F","G","H","I","J","K","L","M",
     "N","O","P","Q","R","S","T","U","V","W","X","Y","Z" >>

Digits == << "0","1","2","3","4","5","6","7","8","9" >>

CYRILLIC_SYMBOLS ==
  << "cyr_a","cyr_be","cyr_ve","cyr_ghe","cyr_de","cyr_ie","cyr_io","cyr_zhe",
     "cyr_ze","cyr_i","cyr_short_i","cyr_ka","cyr_el","cyr_em","cyr_en","cyr_o",
     "cyr_pe","cyr_er","cyr_es","cyr_te","cyr_u","cyr_ef","cyr_ha","cyr_tse",
     "cyr_che","cyr_sha","cyr_shcha","cyr_hard","cyr_yeru","cyr_soft","cyr_e",
     "cyr_yu","cyr_ya","cyr_ukr_ie","cyr_ukr_i","cyr_yi","cyr_ghe_up" >>

\* c.upper() of each letter of CYRILLIC_SYMBOLS, in the same order
CyrillicUpper ==
  << "CYR_A","CYR_BE","CYR_VE","CYR_GHE","CYR_DE","CYR_IE","CYR_IO","CYR_ZHE",
     "CYR_ZE","CYR_I","CYR_SHORT_I","CYR_KA","CYR_EL","CYR_EM","CYR_EN","CYR_O",
     "CYR_PE","CYR_ER","CYR_ES","CYR_TE","CYR_U","CYR_EF","CYR_HA","CYR_TSE",
     "CYR_CHE","CYR_SHA","CYR_SHCHA","CYR_HARD","CYR_YERU","CYR_SOFT","CYR_E",
     "CYR_YU","CYR_YA","CYR_UKR_IE","CYR_UKR_I","CYR_YI","CYR_GHE_UP" >>

TRANSLATION ==
  << <<"a">>, <<"b">>, <<"v">>, <<"g">>, <<"d">>, <<"e">>, <<"y","o">>,
     <<"z","h">>, <<"z">>, <<"i">>, <<"y">>, <<"k">>, <<"l">>, <<"m">>,
     <<"n">>, <<"o">>, <<"p">>, <<"r">>, <<"s">>, <<"t">>, <<"u">>, <<"f">>,
     <<"k","h">>, <<"t","s">>, <<"c","h">>, <<"s","h">>, <<"s","h","c","h">>,
     <<"'">>, <<"y">>, <<"'">>, <<"e">>, <<"y","u">>, <<"y","a">>,
     <<"y","e">>, <<"i">>, <<"y","i">>, <<"g">> >>

\* A letter of another alphabet that TRANS does not know (a word character).
OtherLetters == { "cyr_short_u", "CYR_SHORT_U" }

Range(s) == { s[i] : i \in 1..Len(s) }

IndexOf(s, c) == CHOOSE i \in 1..Len(s) : s[i] = c

\* str.upper() on one character
UpperChar(c) ==
  IF c \in Range(LatinLower) THEN LatinUpper[IndexOf(LatinLower, c)]
  ELSE IF c \in Range(CYRILLIC_SYMBOLS)
       THEN CyrillicUpper[IndexOf(CYRILLIC_SYMBOLS, c)]
  ELSE IF c = "cyr_short_u" THEN "CYR_SHORT_U"
  ELSE c

Upper(s) == [ i \in 1..Len(s) |-> UpperChar(s[i]) ]

\* The regular expression \w on a str pattern: letters of any alphabet,
\* digits and the underscore.
IsWordChar(c) ==
  c \in Range(LatinLower) \cup Range(LatinUpper) \cup Range(Digits) \cup {"_"}
        \cup Range(CYRILLIC_SYMBOLS) \cup Range(CyrillicUpper) \cup OtherLetters

\* TRANS[ord(c)] = l ; TRANS[ord(c.upper())] = l.upper() ; a character that
\* is no key of TRANS is left as it is by str.translate.
TRANS(c) ==
  IF c \in Range(CYRILLIC_SYMBOLS)
  THEN TRANSLATION[IndexOf(CYRILLIC_SYMBOLS, c)]
  ELSE IF c \in Range(CyrillicUpper)
       THEN Upper(TRANSLATION[IndexOf(CyrillicUpper, c)])
  ELSE << c >>

\* ------------------------------------------------------------------ strings

RECURSIVE Translate(_)
Translate(s) ==
  IF s = << >> THEN << >> ELSE TRANS(Head(s)) \o Translate(Tail(s))

\* s with every maximal run of characters that are no word characters
\* replaced by one underscore (inRun: the character before s was one).
RECURSIVE CollapseRuns(_, _)
CollapseRuns(s, inRun) ==
  IF s = << >> THEN << >>
  ELSE IF IsWordChar(Head(s)) THEN << Head(s) >> \o CollapseRuns(Tail(s), FALSE)
  ELSE (IF inRun THEN << >> ELSE << "_" >>) \o CollapseRuns(Tail(s), TRUE)

\* ReSub with the pattern r"\W+".
ReSub_Runs(s) == CollapseRuns(s, FALSE)

\* re.sub(pattern, "_", s) with pattern = r"\W": every single character that
\* is not a word character becomes one underscore.
ReSub(s) == [ i \in 1..Len(s) |-> IF IsWordChar(s[i]) THEN s[i] ELSE "_" ]

\* s.rfind("."), 1-based; 0 when s has no dot
LastDot(s) ==
  IF \E i \in 1..Len(s) : s[i] = "."
  THEN CHOOSE i \in 1..Len(s) : s[i] = "." /\ \A j \in (i+1)..Len(s) : s[j] # "."
  ELSE 0

\* os.path.splitext on a name without separators: the extension starts at
\* the last dot, unless only dots precede it.
SplitExt(name) ==
  LET d == LastDot(name) IN
  IF d > 0 /\ \E i \in 1..(d-1) : name[i] # "."
  THEN << SubSeq(name, 1, d-1), SubSeq(name, d, Len(name)) >>
  ELSE << name, << >> >>

\* pathlib's PurePath.suffix: the last dot and what follows it, unless the
\* dot is the first or the last character of the name.
Suffix(name) ==
  LET d == LastDot(name) IN
  IF 1 < d /\ d < Len(name) THEN SubSeq(name, d, Len(name)) ELSE << >>

\* get_extension without .upper().
get_extension_NoUpper(name) ==
  LET s == Suffix(name) IN
  IF s = << >> THEN << >> ELSE Tail(s)

get_extension(name) ==
  LET s == Suffix(name) IN
  IF s = << >> THEN << >> ELSE Upper(Tail(s))

\* normalize with re.sub applied before str.translate.
normalize_SubFirst(name) ==
  LET p == SplitExt(name) IN Translate(ReSub(p[1])) \o p[2]

normalize(name) ==
  LET p == SplitExt(name) IN ReSub(Translate(p[1])) \o p[2]

StartsWith(s, t) == Len(t) <= Len(s) /\ SubSeq(s, 1, Len(t)) = t

EndsWith(s, t) ==
  Len(t) <= Len(s) /\ SubSeq(s, Len(s) - Len(t) + 1, Len(s)) = t

\* str.replace(old, ""): every non-overlapping occurrence of old, from the
\* left, is removed; with old empty the string is returned unchanged.
RECURSIVE Remove(_, _)
Remove(s, old) ==
  IF old = << >> \/ s = << >> THEN s
  ELSE IF StartsWith(s, old)
       THEN Remove(SubSeq(s, Len(old) + 1, Len(s)), old)
  ELSE << Head(s) >> \o Remove(Tail(s), old)

\* ------------------------------------------------------------------- names

N_result    == << "r","e","s","u","l","t" >>
N_images    == << "i","m","a","g","e","s" >>
N_audio     == << "a","u","d","i","o" >>
N_video     == << "v","i","d","e","o" >>
N_documents == << "d","o","c","u","m","e","n","t","s" >>
N_archives  == << "a","r","c","h","i","v","e","s" >>
N_MY_OTHER  == << "M","Y","_","O","T","H","E","R" >>
N_other     == << "o","t","h","e","r" >>

\* The names scan does not enter (the tuple of the test in scan).
ScanSkipNames ==
  { N_archives, N_video, N_audio, N_documents, N_images, N_MY_OTHER }

\* ---------------------------------------------------------------- buckets

ImageBuckets    == << "JPEG_IMAGES", "JPG_IMAGES", "PNG_IMAGES", "SVG_IMAGES" >>
AudioBuckets    == << "MP3_AUDIO", "OGG_AUDIO", "WAV_AUDIO", "AMR_AUDIO" >>
VideoBuckets    == << "AVI_VIDEO", "MP4_VIDEO", "MOV_VIDEO", "MKV_VIDEO" >>
DocumentBuckets ==
  << "DOC_DOCS", "DOCX_DOCS", "TXT_DOCS", "PDF_DOCS", "XLSX_DOCS", "PPTX_DOCS" >>

BucketNames ==
  Range(ImageBuckets) \cup Range(AudioBuckets) \cup Range(VideoBuckets)
    \cup Range(DocumentBuckets) \cup { "ARCHIVES", "MY_OTHER" }

\* REGISTER_EXTENSION as a list of (key, bucket) pairs
RegisterTable ==
  << << <<"J","P","E","G">>, "JPEG_IMAGES" >>,
     << <<"J","P","G">>,     "JPG_IMAGES" >>,
     << <<"P","N","G">>,     "PNG_IMAGES" >>,
     << <<"S","V","G">>,     "SVG_IMAGES" >>,
     << <<"M","P","3">>,     "MP3_AUDIO" >>,
     << <<"O","G","G">>,     "OGG_AUDIO" >>,
     << <<"W","A","V">>,     "WAV_AUDIO" >>,
     << <<"A","M","R">>,     "AMR_AUDIO" >>,
     << <<"A","V","I">>,     "AVI_VIDEO" >>,
     << <<"M","P","4">>,     "MP4_VIDEO" >>,
     << <<"M","O","V">>,     "MOV_VIDEO" >>,
     << <<"M","K","V">>,     "MKV_VIDEO" >>,
     << <<"D","O","C">>,     "DOC_DOCS" >>,
     << <<"D","O","C","X">>, "DOCX_DOCS" >>,
     << <<"T","X","T">>,     "TXT_DOCS" >>,
     << <<"P","D","F">>,     "PDF_DOCS" >>,
     << <<"X","L","S","X">>, "XLSX_DOCS" >>,
     << <<"P","P","T","X">>, "PPTX_DOCS" >>,
     << <<"Z","I","P">>,     "ARCHIVES" >>,
     << <<"G","Z">>,         "ARCHIVES" >>,
     << <<"T","A","R">>,     "ARCHIVES" >> >>

RegisteredKeys == { RegisterTable[i][1] : i \in 1..Len(RegisterTable) }

\* REGISTER_EXTENSION[extension], for a key of the table
REGISTER_EXTENSION(extension) ==
  RegisterTable[CHOOSE i \in 1..Len(RegisterTable) :
                  RegisterTable[i][1] = extension][2]

\* ------------------------------------------------------------ file system

\* What a file holds. kind is what its bytes are ("plain": no archive at
\* all), entries the members of an archive as (name, id) pairs, damaged an
\* archive that opens but whose extraction raises half way.
Plain(id) ==
  [ id |-> id, kind |-> "plain", entries |-> << >>, damaged |-> FALSE ]

ArchiveOf(id, kind, entries, damaged) ==
  [ id |-> id, kind |-> kind, entries |-> entries, damaged |-> damaged ]

VARIABLES
  fsDirs,      \* the directories that exist (paths)
  fsFiles,     \* the files that exist: path -> what the file holds
  buckets,     \* the twenty module-level lists: bucket name -> list of paths
  FOLDERS,     \* list of the sub-folders scan entered
  EXTENSIONS,  \* set of known extensions seen
  UNKNOWN,     \* set of unknown extensions seen
  mainpc,      \* where main's loop is: "prompt", "scan", "dispatch"
  root,        \* the folder given to the running "sort" command
  scanStack,   \* the activation records of scan, innermost last
  pools,       \* the executors alive: folder of the process_folder call ->
               \* the tasks submitted to its executor, in submission order
  runs,        \* "sort" commands completed so far
  scenario,    \* the tree the process started with (never changes)
  log,         \* what main has given to logger.log: (level, message) pairs
  call         \* normalize under study alone: the name given, what
               \* normalize returned for it, and what it returned for that
               \* (NoCall while the sorter is studied)

vars ==
  << fsDirs, fsFiles, buckets, FOLDERS, EXTENSIONS, UNKNOWN, mainpc, root,
     scanStack, pools, runs, scenario, log, call >>

Name(path) == path[Len(path)]

Parent(path) == IF path = << >> THEN << >> ELSE SubSeq(path, 1, Len(path) - 1)

IsBelow(path, dir) == Len(path) > Len(dir) /\ SubSeq(path, 1, Len(dir)) = dir

is_dir(path) == path \in fsDirs

exists(path) == path \in fsDirs \/ path \in DOMAIN fsFiles

RECURSIVE SetToSeq(_)
SetToSeq(S) ==
  IF S = {} THEN << >>
  ELSE LET x == CHOOSE y \in S : TRUE IN << x >> \o SetToSeq(S \ {x})

\* folder.iterdir(): the entries of the folder, in the order the file system
\* lists them (some fixed order)
Listing(dirs, paths, folder) ==
  SetToSeq({ q \in dirs \cup paths : Parent(q) = folder /\ q # folder })

iterdir(folder) == Listing(fsDirs, DOMAIN fsFiles, folder)

\* Path.mkdir(exist_ok=True, parents=True)
Mkdir(dirs, path) == dirs \cup { SubSeq(path, 1, k) : k \in 1..Len(path) }

\* The directories whose listing the operating system refuses
\* (folder.iterdir() raises PermissionError).
Unreadable(dir) == dir \in scenario.denied

\* --------------------------------------------------------------------- main

\* The messages main gives to logger.log, as (level, message) pairs.
SelectMode  == << "INFO", "Please select the operating mode." >>
HowToExit   == << "INFO", "To get out of the program enter <exit> <quit> <q>." >>
SortedOk    == << "INFO", "Files have been successfully sorted." >>
InResult    == << "INFO", "Sorted files are in the Result folde." >>
ErrorInMain == << "ERROR", "Error in main" >>

\* -------------------------------------------------------------------- scan

\* One activation of scan: the folder, its listing, the entry it is at.
Frame(folder) == [ folder |-> folder, items |-> iterdir(folder), i |-> 1 ]

\* A scan whose loop is over returns to its caller's loop.
RECURSIVE PopDone(_)
PopDone(stack) ==
  IF stack = << >> THEN stack
  ELSE LET top == stack[Len(stack)] IN
       IF top.i > Len(top.items)
       THEN PopDone(SubSeq(stack, 1, Len(stack) - 1))
       ELSE stack

\* ScanEnters with "documents" missing from the tuple.
ScanEnters_NoDocuments(name) ==
  name \notin { N_archives, N_video, N_audio, N_images, N_MY_OTHER }

\* ScanEnters with "MY_OTHER" missing from the tuple.
ScanEnters_NoMyOther(name) ==
  name \notin { N_archives, N_video, N_audio, N_documents, N_images }

\* item.name not in ("archives", "video", "audio", "documents", "images",
\* "MY_OTHER")
ScanEnters(name) == name \notin ScanSkipNames

\* The bucket scan appends a file to: without an extension MY_OTHER, with a
\* key of REGISTER_EXTENSION that key's list, else (KeyError) MY_OTHER.
BucketOf(name) ==
  LET extension == get_extension(name) IN
  IF extension = << >> THEN "MY_OTHER"
  ELSE IF extension \in RegisteredKeys THEN REGISTER_EXTENSION(extension)
  ELSE "MY_OTHER"

\* Appended when the except branch runs after a successful append too.
Appended_AlsoOther(b, full_name) ==
  LET first == [ b EXCEPT ![BucketOf(Name(full_name))] = Append(@, full_name) ]
  IN [ first EXCEPT !["MY_OTHER"] = Append(@, full_name) ]

\* The lists after scan has appended full_name to the list of its extension.
Appended(b, full_name) ==
  [ b EXCEPT ![BucketOf(Name(full_name))] = Append(@, full_name) ]

\* UnknownAdded without the test `if not extension`.
UnknownAdded_AlsoEmpty(U, extension) ==
  IF extension \notin RegisteredKeys THEN U \cup { extension } ELSE U

\* UNKNOWN after scan has classified a file of that extension:
\* UNKNOWN.add(extension) runs in the except KeyError branch only.
UnknownAdded(U, extension) ==
  IF extension # << >> /\ extension \notin RegisteredKeys
  THEN U \cup { extension } ELSE U

\* The "sort" command: MediaHandler(logger).run(path_folder) starts with
\* scan(folder).
Sort(r) ==
  /\ mainpc = "prompt"
  /\ runs < MaxRuns
  /\ r \in scenario.roots
  /\ root' = r
  /\ IF Unreadable(r)
     THEN /\ mainpc' = "exit"
          /\ log' = Append(log, ErrorInMain)
          /\ UNCHANGED scanStack
     ELSE /\ mainpc' = "scan"
          /\ scanStack' = PopDone(<< Frame(r) >>)
          /\ UNCHANGED log
  /\ UNCHANGED << fsDirs, fsFiles, buckets, FOLDERS, EXTENSIONS, UNKNOWN,
                  pools, runs, scenario, call >>

\* One pass of the loop of scan, in the innermost activation. Nothing in
\* scan or run catches an exception: one raised by the iterdir of a folder
\* scan enters leaves every activation of scan and run, and is caught by
\* main's except Exception, which logs it and ends main.
ScanStep ==
  /\ mainpc = "scan"
  /\ scanStack # << >>
  /\ LET n    == Len(scanStack)
         top  == scanStack[n]
         item == top.items[top.i]
         rest == [ scanStack EXCEPT ![n].i = top.i + 1 ]
         extension == get_extension(Name(item))
     IN
     IF is_dir(item)
     THEN /\ IF ScanEnters(Name(item))
             THEN /\ FOLDERS' = Append(FOLDERS, item)
                  /\ IF Unreadable(item)
                     THEN /\ scanStack' = << >>
                          /\ mainpc' = "exit"
                          /\ log' = Append(log, ErrorInMain)
                     ELSE /\ scanStack' = PopDone(Append(rest, Frame(item)))
                          /\ UNCHANGED << mainpc, log >>
             ELSE /\ scanStack' = PopDone(rest)
                  /\ UNCHANGED << FOLDERS, mainpc, log >>
          /\ UNCHANGED << buckets, EXTENSIONS, UNKNOWN >>
     ELSE /\ scanStack' = PopDone(rest)
          /\ buckets' = Appended(buckets, item)
          /\ EXTENSIONS' = IF extension \in RegisteredKeys
                           THEN EXTENSIONS \cup { extension } ELSE EXTENSIONS
          /\ UNKNOWN' = UnknownAdded(UNKNOWN, extension)
          /\ UNCHANGED << FOLDERS, mainpc, log >>
  /\ UNCHANGED << fsDirs, fsFiles, root, pools, runs, scenario, call >>

\* ---------------------------------------------------------- process_folder

RECURSIVE Concat(_, _)
\* b[names[1]] + b[names[2]] + ... : a new list
Concat(b, names) ==
  IF names = << >> THEN << >> ELSE b[Head(names)] \o Concat(b, Tail(names))

\* A task submitted to an executor. kind "folder" runs process_folder(folder),
\* "files" runs process_files(list, target) (process_images, process_audio,
\* process_video and process_documents only call it), "archives" runs
\* process_archives(list, target). st is "queued", "running", "done" or
\* "failed" (the call raised; the future keeps the exception); i is the item
\* of the list the task is at and pc the statement of handle_archive.
Task(kind, folder, list, target) ==
  [ kind |-> kind, folder |-> folder, list |-> list, target |-> target,
    st |-> "queued", i |-> 0, pc |-> "-" ]

result_folder == << N_result >>

\* The six category tasks, in the order process_folder submits them.
CategoryTasks(b) ==
  << Task("files", << >>, Concat(b, ImageBuckets), result_folder \o << N_images >>),
     Task("files", << >>, Concat(b, AudioBuckets), result_folder \o << N_audio >>),
     Task("files", << >>, Concat(b, VideoBuckets), result_folder \o << N_video >>),
     Task("files", << >>, Concat(b, DocumentBuckets),
          result_folder \o << N_documents >>),
     Task("archives", << >>, b["ARCHIVES"], result_folder \o << N_archives >>),
     Task("files", << >>, b["MY_OTHER"], result_folder \o << N_MY_OTHER >>) >>

\* local_folders: the entries of the folder that are directories
LocalFolders(dirs, paths, folder) ==
  SelectSeq(Listing(dirs, paths, folder), LAMBDA q : q \in dirs)

\* What one call of process_folder submits to its executor: a task for each
\* sub-folder, then the six category tasks over the module-level lists.
Submitted(dirs, paths, b, folder) ==
  LET subs == LocalFolders(dirs, paths, folder) IN
  [ k \in 1..Len(subs) |-> Task("folder", subs[k], << >>, << >>) ]
    \o CategoryTasks(b)

Finished(t) == t.st \in { "done", "failed" }

AllFinished(tasks) == \A k \in 1..Len(tasks) : Finished(tasks[k])

Running(tasks) == { k \in 1..Len(tasks) : tasks[k].st = "running" }

\* CanStart with one limit of max_workers for the executors of all nesting
\* levels together (nested calls sharing one pool).
CanStart_SharedLimit(tasks, k) ==
  /\ tasks[k].st = "queued"
  /\ \A j \in 1..(k-1) : tasks[j].st # "queued"
  /\ Cardinality(UNION { { << d, j >> : j \in Running(pools[d]) } :
                          d \in DOMAIN pools }) < max_workers

\* CanStart for an executor that starts no work item once one of its tasks
\* has raised.
CanStart_CancelOnFailure(tasks, k) ==
  /\ tasks[k].st = "queued"
  /\ \A j \in 1..(k-1) : tasks[j].st # "queued"
  /\ Cardinality(Running(tasks)) < max_workers
  /\ \A j \in 1..Len(tasks) : tasks[j].st # "failed"

\* A worker thread of the executor takes the oldest queued work item; the
\* executor has at most max_workers threads.
CanStart(tasks, k) ==
  /\ tasks[k].st = "queued"
  /\ \A j \in 1..(k-1) : tasks[j].st # "queued"
  /\ Cardinality(Running(tasks)) < max_workers

NoPools == [ d \in {} |-> << >> ]

\* ScanReturned when run does not wait for scan.
ScanReturned_NoWait == TRUE

\* self.scan(folder) has returned to run.
ScanReturned == scanStack = << >>

\* run: after scan has returned, process_folder(folder) in the main thread,
\* up to the end of the submissions.
RunProcessFolder ==
  /\ mainpc = "scan"
  /\ ScanReturned
  /\ mainpc' = "dispatch"
  /\ fsDirs' = fsDirs \cup { result_folder }
  /\ pools' = (root :> Submitted(fsDirs', DOMAIN fsFiles, buckets, root))
  /\ UNCHANGED << fsFiles, buckets, FOLDERS, EXTENSIONS, UNKNOWN, root,
                  scanStack, runs, scenario, log, call >>

\* A worker starts a folder task: process_folder(subfolder) up to the end of
\* its submissions, to an executor of its own. iterdir raises when the
\* folder is gone or may not be listed.
StartFolderTask(d, k) ==
  /\ d \in DOMAIN pools
  /\ k \in 1..Len(pools[d])
  /\ CanStart(pools[d], k)
  /\ pools[d][k].kind = "folder"
  /\ LET sub == pools[d][k].folder IN
     /\ fsDirs' = fsDirs \cup { result_folder }
     /\ IF is_dir(sub) /\ ~ Unreadable(sub)
        THEN pools' = [ pools EXCEPT ![d][k].st = "running" ]
                        @@ (sub :> Submitted(fsDirs', DOMAIN fsFiles, buckets, sub))
        ELSE pools' = [ pools EXCEPT ![d][k].st = "failed" ]
  /\ UNCHANGED << fsFiles, buckets, FOLDERS, EXTENSIONS, UNKNOWN, mainpc, root,
                  scanStack, runs, scenario, log, call >>

\* process_files and process_archives over an empty list return without
\* touching anything: a worker that takes such a work item is through with
\* it at once and takes the next one.
RECURSIVE Drain(_, _)
Drain(tasks, k) ==
  IF k <= Len(tasks) /\ tasks[k].st = "queued" /\ tasks[k].kind # "folder"
       /\ tasks[k].list = << >>
  THEN Drain([ tasks EXCEPT ![k].st = "done" ], k + 1)
  ELSE tasks

\* A worker starts a category task.
StartCategoryTask(d, k) ==
  /\ d \in DOMAIN pools
  /\ k \in 1..Len(pools[d])
  /\ CanStart(pools[d], k)
  /\ pools[d][k].kind # "folder"
  /\ LET t == pools[d][k] IN
     pools' = [ pools EXCEPT ![d] =
                  IF t.list = << >>
                  THEN Drain(@, k)
                  ELSE [ @ EXCEPT ![k] =
                           [ t EXCEPT !.st = "running", !.i = 1,
                               !.pc = IF t.kind = "archives" THEN "mkdir"
                                      ELSE "move" ] ] ]
  /\ UNCHANGED << fsDirs, fsFiles, buckets, FOLDERS, EXTENSIONS, UNKNOWN,
                  mainpc, root, scanStack, runs, scenario, log, call >>

\* The end of the with block of process_folder in a worker: shutdown waits
\* for every task of the executor, then the folder task is over.
JoinFolderTask(d, k) ==
  /\ d \in DOMAIN pools
  /\ k \in 1..Len(pools[d])
  /\ pools[d][k].kind = "folder"
  /\ pools[d][k].st = "running"
  /\ LET sub == pools[d][k].folder IN
     /\ AllFinished(pools[sub])
     /\ pools' = [ q \in DOMAIN pools \ { sub } |->
                     IF q = d THEN [ pools[d] EXCEPT ![k].st = "done" ]
                     ELSE pools[q] ]
  /\ UNCHANGED << fsDirs, fsFiles, buckets, FOLDERS, EXTENSIONS, UNKNOWN,
                  mainpc, root, scanStack, runs, scenario, log, call >>

\* The end of the with block of process_folder in the main thread: run
\* returns, main logs its two messages and asks for the next command.
MainJoin ==
  /\ mainpc = "dispatch"
  /\ AllFinished(pools[root])
  /\ mainpc' = "prompt"
  /\ pools' = NoPools
  /\ runs' = runs + 1
  /\ log' = log \o << SortedOk, InResult >>
  /\ UNCHANGED << fsDirs, fsFiles, buckets, FOLDERS, EXTENSIONS, UNKNOWN, root,
                  scanStack, scenario, call >>

\* ------------------------------------------------------------ handle_media

\* Some leading part of the path is a file: mkdir raises.
BlockedByFile(paths, path) == \E k \in 1..Len(path) : SubSeq(path, 1, k) \in paths

Without(files, path) == [ q \in DOMAIN files \ { path } |-> files[q] ]

\* shutil.move(src, dst) of a file: into dst when dst is a directory (and
\* raises when that name is taken there), else os.rename, which replaces a
\* file at dst; raises, changing nothing, when src is gone. The result is
\* the new files.
Move(dirs, files, src, dst) ==
  LET real_dst == IF dst \in dirs THEN dst \o << Name(src) >> ELSE dst IN
  IF src \notin DOMAIN files THEN files
  ELSE IF dst \in dirs /\ (real_dst \in dirs \/ real_dst \in DOMAIN files)
       THEN files
  ELSE (real_dst :> files[src]) @@ Without(files, src)

\* handle_media without target_folder.mkdir(exist_ok=True, parents=True).
handle_media_NoMkdir(dirs, files, file_name, target_folder) ==
  << dirs,
     Move(dirs, files, file_name,
          target_folder \o << normalize(Name(file_name)) >>) >>

\* handle_media(file_name, target_folder): every exception is swallowed.
\* The result is << directories, files >>.
handle_media(dirs, files, file_name, target_folder) ==
  IF BlockedByFile(DOMAIN files, target_folder) THEN << dirs, files >>
  ELSE LET made == Mkdir(dirs, target_folder)
           new_file_path == target_folder \o << normalize(Name(file_name)) >>
       IN << made, Move(made, files, file_name, new_file_path) >>

\* The loop of process_files / process_archives goes to its next item, or
\* the task is over.
NextItem(t) ==
  IF t.i = Len(t.list)
  THEN [ t EXCEPT !.st = "done", !.i = 0, !.pc = "-" ]
  ELSE [ t EXCEPT !.i = @ + 1,
                  !.pc = IF t.kind = "archives" THEN "mkdir" ELSE "move" ]

Raised(t) == [ t EXCEPT !.st = "failed" ]

At(d, k, kind, pc) ==
  /\ d \in DOMAIN pools
  /\ k \in 1..Len(pools[d])
  /\ pools[d][k].kind = kind
  /\ pools[d][k].st = "running"
  /\ pools[d][k].pc = pc

\* process_files: one pass of its loop
HandleMedia(d, k) ==
  /\ At(d, k, "files", "move")
  /\ LET t == pools[d][k]
         r == handle_media(fsDirs, fsFiles, t.list[t.i], t.target)
     IN /\ fsDirs' = r[1]
        /\ fsFiles' = r[2]
        /\ pools' = [ pools EXCEPT ![d][k] = NextItem(t) ]
  /\ UNCHANGED << buckets, FOLDERS, EXTENSIONS, UNKNOWN, mainpc, root,
                  scanStack, runs, scenario, log, call >>

\* ---------------------------------------------------------- handle_archive

\* target_folder / normalize(file_name.name.replace(file_name.suffix, ""))
folder_for_file(file_name, target_folder) ==
  target_folder
    \o << normalize(Remove(Name(file_name), Suffix(Name(file_name)))) >>

\* shutil's format of a file name (the formats the extensions of the
\* ARCHIVES bucket can reach); "none" when no format matches.
FindUnpackFormat(name) ==
  IF EndsWith(name, << ".","t","a","r",".","g","z" >>) THEN "gztar"
  ELSE IF EndsWith(name, << ".","t","a","r" >>) THEN "tar"
  ELSE IF EndsWith(name, << ".","z","i","p" >>) THEN "zip"
  ELSE "none"

\* shutil.unpack_archive(file_name, ...): "ok", "ReadError" (no format for
\* the name; a zip name on no zip file, also when the file is gone; a tar
\* name on no tar file) or "error" (any other exception: a tar name whose
\* file is gone, a damaged archive).
UnpackOutcome(files, file_name) ==
  LET format == FindUnpackFormat(Name(file_name)) IN
  IF format = "none" THEN "ReadError"
  ELSE IF file_name \notin DOMAIN files
       THEN IF format = "zip" THEN "ReadError" ELSE "error"
  ELSE IF format = "zip" /\ files[file_name].kind # "zip" THEN "ReadError"
  ELSE IF format # "zip" /\ files[file_name].kind \notin { "tar", "gztar" }
       THEN "ReadError"
  ELSE IF files[file_name].damaged THEN "error"
  ELSE "ok"

\* The members unpack_archive writes (a damaged archive's too, before it
\* raises).
Extracted(files, file_name) ==
  IF UnpackOutcome(files, file_name) \in { "ok", "error" }
       /\ file_name \in DOMAIN files
  THEN files[file_name].entries ELSE << >>

IsEmptyDir(dirs, paths, dir) ==
  /\ dir \in dirs
  /\ \A q \in dirs \cup paths : ~ IsBelow(q, dir)

\* target_folder.mkdir(...); folder_for_file.mkdir(...)
ArchiveMkdir(d, k) ==
  /\ At(d, k, "archives", "mkdir")
  /\ LET t == pools[d][k]
         dir == folder_for_file(t.list[t.i], t.target)
     IN IF BlockedByFile(DOMAIN fsFiles, dir)
        THEN /\ pools' = [ pools EXCEPT ![d][k] = Raised(t) ]
             /\ UNCHANGED fsDirs
        ELSE /\ fsDirs' = Mkdir(fsDirs, dir)
             /\ pools' = [ pools EXCEPT ![d][k].pc = "unpack" ]
  /\ UNCHANGED << fsFiles, buckets, FOLDERS, EXTENSIONS, UNKNOWN, mainpc, root,
                  scanStack, runs, scenario, log, call >>

\* try: shutil.unpack_archive(...) except shutil.ReadError: ...
ArchiveUnpack(d, k) ==
  /\ At(d, k, "archives", "unpack")
  /\ LET t == pools[d][k]
         file_name == t.list[t.i]
         dir == folder_for_file(file_name, t.target)
         outcome == UnpackOutcome(fsFiles, file_name)
         members == Extracted(fsFiles, file_name)
         written == { dir \o << members[j][1] >> : j \in 1..Len(members) }
     IN /\ fsDirs' = IF members = << >> THEN fsDirs ELSE Mkdir(fsDirs, dir)
        /\ fsFiles' = [ q \in DOMAIN fsFiles \cup written |->
                          IF q \in written
                          THEN Plain(members[CHOOSE j \in 1..Len(members) :
                                        dir \o << members[j][1] >> = q][2])
                          ELSE fsFiles[q] ]
        /\ pools' = [ pools EXCEPT ![d][k] =
                        IF outcome = "ok" THEN [ t EXCEPT !.pc = "unlink" ]
                        ELSE IF outcome = "ReadError" THEN [ t EXCEPT !.pc = "rmdir" ]
                        ELSE Raised(t) ]
  /\ UNCHANGED << buckets, FOLDERS, EXTENSIONS, UNKNOWN, mainpc, root,
                  scanStack, runs, scenario, log, call >>

\* except shutil.ReadError: folder_for_file.rmdir(); return
ArchiveRmdir(d, k) ==
  /\ At(d, k, "archives", "rmdir")
  /\ LET t == pools[d][k]
         dir == folder_for_file(t.list[t.i], t.target)
     IN IF IsEmptyDir(fsDirs, DOMAIN fsFiles, dir)
        THEN /\ fsDirs' = fsDirs \ { dir }
             /\ pools' = [ pools EXCEPT ![d][k] = NextItem(t) ]
        ELSE /\ pools' = [ pools EXCEPT ![d][k] = Raised(t) ]
             /\ UNCHANGED fsDirs
  /\ UNCHANGED << fsFiles, buckets, FOLDERS, EXTENSIONS, UNKNOWN, mainpc, root,
                  scanStack, runs, scenario, log, call >>

\* file_name.unlink()
ArchiveUnlink(d, k) ==
  /\ At(d, k, "archives", "unlink")
  /\ LET t == pools[d][k]
         file_name == t.list[t.i]
     IN IF file_name \in DOMAIN fsFiles
        THEN /\ fsFiles' = Without(fsFiles, file_name)
             /\ pools' = [ pools EXCEPT ![d][k] = NextItem(t) ]
        ELSE /\ pools' = [ pools EXCEPT ![d][k] = Raised(t) ]
             /\ UNCHANGED fsFiles
  /\ UNCHANGED << fsDirs, buckets, FOLDERS, EXTENSIONS, UNKNOWN, mainpc, root,
                  scanStack, runs, scenario, log, call >>

\* ------------------------------------------------------------------ trees

N_in  == << "i","n" >>
N_in2 == << "i","n","2" >>
N_a   == << "a" >>

F_x_txt     == << "x",".","t","x","t" >>
F_y_mp3     == << "y",".","m","p","3" >>
F_photo_JPG == << "p","h","o","t","o",".","J","P","G" >>
F_foto_png  == << "cyr_ef","cyr_o","cyr_te","cyr_o",".","p","n","g" >>
F_readme    == << "r","e","a","d","m","e" >>
F_data_xyz  == << "d","a","t","a",".","x","y","z" >>
F_p_png     == << "p",".","p","n","g" >>
F_q_png     == << "q",".","p","n","g" >>
F_r_png     == << "r",".","p","n","g" >>
F_m_txt     == << "m",".","t","x","t" >>
F_e_zip     == << "e",".","z","i","p" >>
F_c_zip     == << "c",".","z","i","p" >>
F_d_zip     == << "d",".","z","i","p" >>
F_b_zip     == << "b",".","z","i","p" >>
F_d_tar     == << "d",".","t","a","r" >>
F_g_gz      == << "g",".","g","z" >>
F_v_avi     == << "v",".","a","v","i" >>

\* A tree: its directories, its files, the folders the user may ask to
\* sort, and the directories that may not be listed.
TreeWith(dirs, files, roots, denied) ==
  [ dirs |-> dirs, files |-> files, roots |-> roots, denied |-> denied ]

Tree(dirs, files, roots) == TreeWith(dirs, files, roots, {})

\* Two files of the same name in different folders.
T_collide ==
  Tree({ <<N_in>>, <<N_in, N_a>> },
       (<<N_in, F_x_txt>> :> Plain("f1")) @@ (<<N_in, N_a, F_x_txt>> :> Plain("f2"))
         @@ (<<N_in, F_y_mp3>> :> Plain("f3")),
       { <<N_in>> })

\* A file whose name is taken in the destination folder.
T_taken ==
  Tree({ <<N_in>>, result_folder, result_folder \o <<N_documents>> },
       (<<N_in, F_x_txt>> :> Plain("f1"))
         @@ (result_folder \o <<N_documents, F_x_txt>> :> Plain("old")),
       { <<N_in>> })

\* A valid archive without members, and a sub-folder.
T_empty_zip ==
  Tree({ <<N_in>>, <<N_in, N_a>> },
       (<<N_in, F_e_zip>> :> ArchiveOf("z1", "zip", << >>, FALSE)),
       { <<N_in>> })

\* A file that is no archive under an archive's name, a gzip file (a format
\* unpack_archive has no unpacker for), a valid archive, and a sub-folder.
T_corrupt ==
  Tree({ <<N_in>>, <<N_in, N_a>> },
       (<<N_in, F_c_zip>> :> Plain("z2"))
         @@ (<<N_in, F_g_gz>> :> ArchiveOf("z7", "gz", << >>, FALSE))
         @@ (<<N_in, N_a, F_d_zip>> :>
               ArchiveOf("z3", "zip", << <<F_m_txt, "m1">> >>, FALSE)),
       { <<N_in>> })

\* An archive that opens and then fails while it is extracted.
T_damaged ==
  Tree({ <<N_in>> },
       (<<N_in, F_b_zip>> :> ArchiveOf("z4", "zip", << <<F_m_txt, "m2">> >>, TRUE)),
       { <<N_in>> })

\* A valid archive and a file that is no archive, of the same stem.
T_same_stem ==
  Tree({ <<N_in>> },
       (<<N_in, F_d_zip>> :> ArchiveOf("z5", "zip", << <<F_m_txt, "m3">> >>, FALSE))
         @@ (<<N_in, F_d_tar>> :> Plain("z6")),
       { <<N_in>> })

\* Folders nested six deep below the root.
T_deep ==
  Tree({ <<N_in>>, <<N_in, N_a>>, <<N_in, N_a, N_a>>, <<N_in, N_a, N_a, N_a>>,
         <<N_in, N_a, N_a, N_a, N_a>>, <<N_in, N_a, N_a, N_a, N_a, N_a>>,
         <<N_in, N_a, N_a, N_a, N_a, N_a, N_a>> },
       [ q \in {} |-> Plain("f") ],
       { <<N_in>> })

\* Six sub-folders of the root.
T_wide ==
  Tree({ <<N_in>>, <<N_in, <<"a">> >>, <<N_in, <<"b">> >>, <<N_in, <<"c">> >>,
         <<N_in, <<"d">> >>, <<N_in, <<"e">> >>, <<N_in, <<"f">> >> },
       [ q \in {} |-> Plain("f") ],
       { <<N_in>> })

\* Folders named images, other and MY_OTHER in the tree.
T_reserved ==
  Tree({ <<N_in>>, <<N_in, N_images>>, <<N_in, N_other>>, <<N_in, N_MY_OTHER>> },
       (<<N_in, N_images, F_p_png>> :> Plain("f1"))
         @@ (<<N_in, N_other, F_q_png>> :> Plain("f2"))
         @@ (<<N_in, N_MY_OTHER, F_r_png>> :> Plain("f3")),
       { <<N_in>> })

\* Two folders the user may sort.
T_two_roots ==
  Tree({ <<N_in>>, <<N_in2>> },
       (<<N_in, F_x_txt>> :> Plain("f1")) @@ (<<N_in2, F_y_mp3>> :> Plain("f2")),
       { <<N_in>>, <<N_in2>> })

\* The working directory itself is sorted: result/ is made inside the tree.
T_cwd ==
  Tree({ }, (<<F_x_txt>> :> Plain("f1")), { << >> })

\* The working directory, with a file without extension.
T_cwd_other ==
  Tree({ }, (<<F_readme>> :> Plain("f1")), { << >> })

\* An archive that fails while it is extracted, and a valid archive.
T_batch ==
  Tree({ <<N_in>> },
       (<<N_in, F_b_zip>> :> ArchiveOf("z9", "zip", << <<F_m_txt, "m5">> >>, TRUE))
         @@ (<<N_in, F_e_zip>> :>
               ArchiveOf("z10", "zip", << <<F_m_txt, "m6">> >>, FALSE)),
       { <<N_in>> })

\* result/documents is a file: the folder of the documents cannot be made.
T_blocked ==
  Tree({ <<N_in>>, result_folder },
       (<<N_in, F_x_txt>> :> Plain("f1")) @@ (<<N_in, F_m_txt>> :> Plain("f2"))
         @@ (result_folder \o <<N_documents>> :> Plain("f3")),
       { <<N_in>> })

\* A file of each category: image, audio, video, document, archive, other.
T_all ==
  Tree({ <<N_in>> },
       (<<N_in, F_p_png>> :> Plain("f1")) @@ (<<N_in, F_y_mp3>> :> Plain("f2"))
         @@ (<<N_in, F_v_avi>> :> Plain("f3")) @@ (<<N_in, F_x_txt>> :> Plain("f4"))
         @@ (<<N_in, F_e_zip>> :>
               ArchiveOf("z11", "zip", << <<F_m_txt, "m7">> >>, FALSE))
         @@ (<<N_in, F_readme>> :> Plain("f5")),
       { <<N_in>> })

\* A sub-folder that may not be listed, beside a file.
T_locked ==
  TreeWith({ <<N_in>>, <<N_in, N_a>> },
           (<<N_in, F_x_txt>> :> Plain("f1"))
             @@ (<<N_in, N_a, F_y_mp3>> :> Plain("f2")),
           { <<N_in>> },
           { <<N_in, N_a>> })

\* A sub-folder of a name scan skips that may not be listed, beside a file.
T_locked_out ==
  TreeWith({ <<N_in>>, <<N_in, N_images>> },
           (<<N_in, F_x_txt>> :> Plain("f1"))
             @@ (<<N_in, N_images, F_p_png>> :> Plain("f2")),
           { <<N_in>> },
           { <<N_in, N_images>> })

\* Upper-case, Cyrillic, missing and unknown extensions.
T_mixed ==
  Tree({ <<N_in>> },
       (<<N_in, F_photo_JPG>> :> Plain("f1"))
         @@ (<<N_in, F_foto_png>> :> Plain("f2"))
         @@ (<<N_in, F_readme>> :> Plain("f3"))
         @@ (<<N_in, F_data_xyz>> :> Plain("f4")),
       { <<N_in>> })

Trees ==
  { T_collide, T_taken, T_empty_zip, T_corrupt, T_damaged, T_same_stem,
    T_deep, T_wide, T_reserved, T_two_roots, T_cwd, T_locked, T_locked_out,
    T_cwd_other, T_batch, T_blocked, T_all, T_mixed }

\* ---------------------------------------------------------- specification

NoCall == [ name |-> << >>, ret |-> << >>, again |-> << >>, pc |-> "none" ]

\* The state of a process that has just started in a tree.
Started(trees) ==
  /\ scenario \in trees
  /\ fsDirs = scenario.dirs
  /\ fsFiles = scenario.files
  /\ buckets = [ b \in BucketNames |-> << >> ]
  /\ FOLDERS = << >>
  /\ EXTENSIONS = {}
  /\ UNKNOWN = {}
  /\ mainpc = "prompt"
  /\ root = << >>
  /\ scanStack = << >>
  /\ pools = NoPools
  /\ runs = 0
  /\ log = << SelectMode, HowToExit >>

Init == Started(Trees) /\ call = NoCall

Tasks == UNION { { << d, k >> : k \in 1..Len(pools[d]) } : d \in DOMAIN pools }

SortCommand      == \E r \in scenario.roots : Sort(r)
StartFolder      == \E id \in Tasks : StartFolderTask(id[1], id[2])
StartCategory    == \E id \in Tasks : StartCategoryTask(id[1], id[2])
JoinFolder       == \E id \in Tasks : JoinFolderTask(id[1], id[2])
MoveOne          == \E id \in Tasks : HandleMedia(id[1], id[2])
MkdirForArchive  == \E id \in Tasks : ArchiveMkdir(id[1], id[2])
UnpackArchive    == \E id \in Tasks : ArchiveUnpack(id[1], id[2])
RmdirForArchive  == \E id \in Tasks : ArchiveRmdir(id[1], id[2])
UnlinkArchive    == \E id \in Tasks : ArchiveUnlink(id[1], id[2])

Next ==
  \/ SortCommand
  \/ ScanStep
  \/ RunProcessFolder
  \/ MainJoin
  \/ StartFolder
  \/ StartCategory
  \/ JoinFolder
  \/ MoveOne
  \/ MkdirForArchive
  \/ UnpackArchive
  \/ RmdirForArchive
  \/ UnlinkArchive

Spec == Init /\ [][Next]_vars

\* Threads are scheduled fairly and every move and unpack ends: a step that
\* can be taken is taken.
FairSpec == Spec /\ WF_vars(Next)

\* ------------------------------------------------- classification alone

\* str.lower() on one character of an extension of the table
LowerChar(c) ==
  IF c \in Range(LatinUpper) THEN LatinLower[IndexOf(LatinUpper, c)] ELSE c

\* Every upper/lower-case spelling of an extension.
Spellings(key) ==
  { w \in [ 1..Len(key) -> Range(key) \cup { LowerChar(c) : c \in Range(key) } ] :
      \A i \in 1..Len(key) : w[i] \in { key[i], LowerChar(key[i]) } }

ClassifyStems == { << "n" >>, << "a", ".", "b" >> }

\* Names with an extension of the table, in every spelling.
KnownNames ==
  UNION { { stem \o << "." >> \o w : w \in Spellings(key) } :
            stem \in ClassifyStems, key \in RegisteredKeys }

\* Names without an extension, and names with one the table does not hold.
OtherNames ==
  { F_readme, << ".", "g" >>, << "a", "." >>, << ".", ".", "." >>,
    F_data_xyz, << "d", ".", "X", "y" >>, << ".", ".", "a" >>,
    << "x", ".", "7", "z" >>, << "n", ".", "cyr_a" >>, << "a", ".", "b", " ", "c" >>,
    << "t", ".", "t", "a", "r", ".", "b", "z", "2" >>, << "m", ".", "m", "p" >> }

\* What scan may have classified before: nothing, a file of the table, a
\* file outside it.
PriorNames == { << >>, F_y_mp3, F_data_xyz }

\* A folder with the file under study and a file beside it.
ClassifyTrees ==
  { Tree({ <<N_in>> },
         [ q \in { <<N_in, n>> } \cup (IF pr = << >> THEN {} ELSE { <<N_in, pr>> })
             |-> Plain(q) ],
         { <<N_in>> }) :
      n \in KnownNames \cup OtherNames, pr \in PriorNames }

ClassifyNext == SortCommand \/ ScanStep

\* scan alone, over every name of KnownNames and OtherNames.
ClassifySpec ==
  Started(ClassifyTrees) /\ call = NoCall /\ [][ClassifyNext]_vars

\* ------------------------------------------------------ normalize alone

\* Characters of each kind normalize tells apart: a Latin letter, the
\* underscore, the dot, the space, Cyrillic letters that become two letters
\* (lower and upper case) and one that becomes an apostrophe, and a letter
\* TRANS does not know.
NormChars ==
  { "a", "_", ".", " ", "cyr_zhe", "CYR_YA", "cyr_soft", "cyr_short_u" }

RECURSIVE NamesUpTo(_)
NamesUpTo(n) ==
  IF n = 0 THEN { << >> }
  ELSE LET shorter == NamesUpTo(n - 1) IN
       shorter \cup { Append(w, c) : w \in shorter, c \in NormChars }

\* The file names of 1 to MaxLen characters.
NormNames == NamesUpTo(MaxLen) \ { << >> }

\* normalize(name)
NormalizeOnce ==
  /\ call.pc = "given"
  /\ call' = [ call EXCEPT !.ret = normalize(call.name), !.pc = "once" ]
  /\ UNCHANGED << fsDirs, fsFiles, buckets, FOLDERS, EXTENSIONS, UNKNOWN,
                  mainpc, root, scanStack, pools, runs, scenario, log >>

\* normalize(normalize(name))
NormalizeAgain ==
  /\ call.pc = "once"
  /\ call' = [ call EXCEPT !.again = normalize(call.ret), !.pc = "twice" ]
  /\ UNCHANGED << fsDirs, fsFiles, buckets, FOLDERS, EXTENSIONS, UNKNOWN,
                  mainpc, root, scanStack, pools, runs, scenario, log >>

NormNext == NormalizeOnce \/ NormalizeAgain

\* normalize alone, over every name of NormNames.
NormSpec ==
  /\ Started({ T_cwd })
  /\ call \in { [ name |-> x, ret |-> << >>, again |-> << >>, pc |-> "given" ] :
                  x \in NormNames }
  /\ [][NormNext]_vars

\* ----------------------------------------------------------------- helpers

TaskIds == Tasks

TaskAt(id) == pools[id[1]][id[2]]

\* How many times a path is in the lists, over all of them.
Count(path) ==
  Cardinality({ e \in UNION { { << b, j >> : j \in 1..Len(buckets[b]) } :
                               b \in BucketNames } :
                buckets[e[1]][e[2]] = path })

\* The files the process started with that scan puts in the ARCHIVES list.
IsArchiveName(path) == BucketOf(Name(path)) = "ARCHIVES"

RunOver == mainpc = "prompt" /\ runs > 0

\* Where the file that was at a path when the process started is now.
Holders(path) ==
  { q \in DOMAIN fsFiles : fsFiles[q].id = scenario.files[path].id }

\* The items of its list a task has called handle_media or handle_archive
\* on (handle_archive counts from its unpack attempt on).
Attempted(t) ==
  IF t.st = "done" THEN Range(t.list)
  ELSE IF t.st = "queued" \/ t.kind = "folder" THEN {}
  ELSE { t.list[j] : j \in 1..(t.i - 1) }
         \cup (IF t.st = "failed" \/ t.pc \in { "rmdir", "unlink" }
               THEN { t.list[t.i] } ELSE {})

\* Tasks running at this moment, over the executors of all nesting levels.
TotalRunning == Cardinality({ id \in TaskIds : TaskAt(id).st = "running" })

\* ---------------------------------------------------------------------- C1
\* C1: after a run, every non-archive file that existed before it is at
\* exactly one place: its original path, or one path under result/.
C1_EveryFileAtOnePlace ==
  RunOver =>
    \A p \in DOMAIN scenario.files :
      ~ IsArchiveName(p) =>
        /\ Cardinality(Holders(p)) = 1
        /\ \A q \in Holders(p) : q = p \/ IsBelow(q, result_folder)

\* ---------------------------------------------------------------------- C2
\* C2: after a run, every archive whose unpacking fails is still at its
\* original path and the folder result/archives/<normalized stem> of it
\* does not exist.
C2_FailedArchiveRolledBack ==
  RunOver =>
    \A p \in DOMAIN scenario.files :
      (IsArchiveName(p) /\ IsBelow(p, root)
         /\ UnpackOutcome(scenario.files, p) # "ok") =>
        /\ p \in DOMAIN fsFiles
        /\ fsFiles[p] = scenario.files[p]
        /\ folder_for_file(p, result_folder \o << N_archives >>) \notin fsDirs

\* ---------------------------------------------------------------------- C3
\* C3: after a run, every archive that is gone from its original path had
\* unpacked, and its folder result/archives/<normalized stem> exists and
\* holds the members of the archive (none, for an archive without members).
C3_DeletedArchiveIsExtracted ==
  RunOver =>
    \A p \in DOMAIN scenario.files :
      (IsArchiveName(p) /\ p \notin DOMAIN fsFiles) =>
        LET dir == folder_for_file(p, result_folder \o << N_archives >>)
            members == scenario.files[p].entries
        IN /\ UnpackOutcome(scenario.files, p) = "ok"
           /\ dir \in fsDirs
           /\ \A j \in 1..Len(members) :
                /\ dir \o << members[j][1] >> \in DOMAIN fsFiles
                /\ fsFiles[dir \o << members[j][1] >>].id = members[j][2]

\* ---------------------------------------------------------------------- C4
\* C4: no file record is handled by two tasks of a run: no two tasks have
\* both called handle_media or handle_archive on the same path.
C4_OneAttemptPerFile ==
  \A id1 \in TaskIds : \A id2 \in TaskIds :
    id1 # id2 => Attempted(TaskAt(id1)) \cap Attempted(TaskAt(id2)) = {}

\* ---------------------------------------------------------------------- C5
\* C5: at every moment at most max_workers tasks are executing, counted over
\* all nesting levels of process_folder.
C5_AtMostFiveTasksRunning == TotalRunning <= max_workers

\* ---------------------------------------------------------------------- C6
\* C6: process_folder of the root eventually returns, with every executor
\* shut down, however many sub-folders and nesting levels the tree has.
C6_ProcessFolderReturns ==
  (mainpc = "dispatch") ~> (mainpc = "prompt" /\ pools = NoPools)

\* process_folder has returned for a root with more sub-folders than an
\* executor has workers.
C6_Witness ==
  /\ RunOver
  /\ Cardinality({ d \in fsDirs : Parent(d) = root /\ d # root }) > max_workers

\* ---------------------------------------------------------------------- C7
\* C7: a list is appended to only while no task exists, tasks exist only
\* when scan has returned, and the file system changes only then; during
\* the dispatch the lists stay as they are.
C7_ScanBeforeDispatch ==
  [][ /\ (buckets' # buckets => pools = NoPools /\ pools' = NoPools)
      /\ (pools' # NoPools =>
            scanStack' = << >> /\ mainpc' = "dispatch" /\ buckets' = buckets)
      /\ ((fsFiles' # fsFiles \/ fsDirs' # fsDirs) =>
            scanStack = << >> /\ buckets' = buckets) ]_vars

\* A task has moved or deleted a file that scan had put in a list.
C7_Witness ==
  /\ mainpc = "dispatch"
  /\ \E p \in DOMAIN scenario.files : Count(p) > 0 /\ p \notin DOMAIN fsFiles

\* ---------------------------------------------------------------------- C8

C8_CodeNames ==
  { N_archives, N_video, N_audio, N_documents, N_images, N_MY_OTHER }

C8_ClaimNames ==
  { N_archives, N_video, N_audio, N_documents, N_images, N_other }

\* The path is, or lies below, a directory of one of the names under the
\* folder r.
C8_InOrBelow(r, names, path) == \E k \in (Len(r) + 1)..Len(path) : path[k] \in names

\* In a step: no activation of scan other than the outermost is for such a
\* directory, none is added to FOLDERS, and no path below one is added to
\* a list.
C8_Step(names) ==
  /\ \A j \in 2..Len(scanStack') :
       ~ C8_InOrBelow(root', names, scanStack'[j].folder)
  /\ \A j \in (Len(FOLDERS) + 1)..Len(FOLDERS') :
       ~ C8_InOrBelow(root', names, FOLDERS'[j])
  /\ \A b \in BucketNames : \A j \in (Len(buckets[b]) + 1)..Len(buckets'[b]) :
       ~ C8_InOrBelow(root', names, Parent(buckets'[b][j]))

\* C8 (as amended): scan never enters, and never records in FOLDERS, a
\* directory named archives, video, audio, documents, images or MY_OTHER,
\* and appends no file below one to a list.
C8_ScanSkipsReservedNames == [][ C8_Step(C8_CodeNames) ]_vars

\* C8 (as claimed): the same for archives, video, audio, documents, images
\* and other.
C8_ScanSkipsClaimedNames == [][ C8_Step(C8_ClaimNames) ]_vars

\* scan has returned and left out a file below a directory of a reserved
\* name.
C8_Witness ==
  /\ mainpc = "dispatch"
  /\ \E p \in DOMAIN fsFiles :
       /\ IsBelow(p, root)
       /\ C8_InOrBelow(root, C8_CodeNames, Parent(p))
       /\ Count(p) = 0

\* ---------------------------------------------------------------------- C9
\* C9: when a run starts, the lists, FOLDERS, EXTENSIONS and UNKNOWN are
\* empty, and what the run dispatches is what its own scan found: files
\* below its root that exist when the scan returns.
C9_StateFreshPerRun ==
  [][ /\ (mainpc = "prompt" /\ mainpc' = "scan") =>
           /\ \A b \in BucketNames : buckets'[b] = << >>
           /\ FOLDERS' = << >>
           /\ EXTENSIONS' = {}
           /\ UNKNOWN' = {}
      /\ (mainpc = "scan" /\ mainpc' = "dispatch") =>
           \A k \in 1..Len(pools'[root]) :
             Range(pools'[root][k].list)
               \subseteq { q \in DOMAIN fsFiles : IsBelow(q, root) } ]_vars

\* --------------------------------------------------------------------- C10
\* C10: in the first run of a process no path is in the lists twice, and
\* when its scan has returned every file below the root that is not below
\* a directory scan skips is in the lists exactly once.
C10_EachFileInOneBucketOnce ==
  runs = 0 =>
    /\ \A b \in BucketNames : \A j \in 1..Len(buckets[b]) :
         Count(buckets[b][j]) = 1
    /\ (mainpc = "scan" /\ scanStack = << >>) =>
         \A q \in DOMAIN fsFiles :
           (IsBelow(q, root) /\ ~ C8_InOrBelow(root, C8_CodeNames, Parent(q)))
             => Count(q) = 1

\* The first scan has returned with files of several folders and lists.
C10_Witness ==
  /\ runs = 0
  /\ mainpc = "scan"
  /\ scanStack = << >>
  /\ Cardinality({ b \in BucketNames : buckets[b] # << >> }) >= 2
  /\ \E b \in BucketNames : \E j \in 1..Len(buckets[b]) :
       Parent(buckets[b][j]) # root

\* --------------------------------------------------------------------- C11

\* The path lies in or below a folder that may not be listed.
C11_Hidden(path) ==
  \E k \in 1..(Len(path) - 1) : SubSeq(path, 1, k) \in scenario.denied

\* C11: a folder that may not be listed does not end the run: main goes on,
\* and when the first scan has returned and the dispatch has begun, every
\* file below the root that is not below such a folder or a skipped one is in
\* the lists once.
C11_ScanSkipsFailedEntry ==
  /\ mainpc # "exit"
  /\ (runs = 0 /\ mainpc = "dispatch") =>
       \A q \in DOMAIN scenario.files :
         (/\ IsBelow(q, root)
          /\ ~ C8_InOrBelow(root, C8_CodeNames, Parent(q))
          /\ ~ C11_Hidden(q)) => Count(q) = 1

\* --------------------------------------------------------------------- C12
\* C12: a category task that is over, whatever failed on the way, has called
\* handle_media or handle_archive on every item of its list.
C12_BatchGoesOn ==
  \A id \in TaskIds :
    (TaskAt(id).kind # "folder" /\ Finished(TaskAt(id))) =>
      Attempted(TaskAt(id)) = Range(TaskAt(id).list)

\* --------------------------------------------------------------------- C13

\* The file that scan put in a list is where and what it was before the run:
\* its move or its unpacking failed, or it was unpacked and not deleted.
C13_LeftInPlace(p) ==
  /\ IsBelow(p, root)
  /\ Count(p) > 0
  /\ p \in DOMAIN fsFiles
  /\ fsFiles[p] = scenario.files[p]

\* C13: after a run, for every file left in place the log holds an entry of
\* level ERROR.
C13_FailuresLogged ==
  RunOver =>
    \A p \in DOMAIN scenario.files :
      C13_LeftInPlace(p) => \E j \in 1..Len(log) : log[j][1] = "ERROR"

\* --------------------------------------------------------------------- C14

C14_SomeTaskFailed == \E id \in TaskIds : TaskAt(id).st = "failed"

\* In a step: a task that raises changes no other task, and an executor is
\* shut down only when each of its tasks is over.
C14_Step ==
  /\ \A id \in TaskIds :
       (TaskAt(id).st # "failed" /\ id[1] \in DOMAIN pools'
          /\ pools'[id[1]][id[2]].st = "failed") =>
         /\ DOMAIN pools' = DOMAIN pools
         /\ \A o \in TaskIds \ { id } : pools'[o[1]][o[2]] = TaskAt(o)
  /\ \A d \in DOMAIN pools : d \notin DOMAIN pools' => AllFinished(pools[d])

\* C14: a task that raises neither cancels nor blocks a task of its
\* executor: the others are started and end, every executor is shut down
\* with all its tasks over, and process_folder returns to main.
C14_FailureIsIsolated ==
  /\ [][ C14_Step ]_vars
  /\ C14_SomeTaskFailed ~> (mainpc = "prompt" /\ pools = NoPools)

\* A folder task or a category task has raised, and a task submitted after
\* it to the same executor has done its work.
C14_Witness ==
  /\ mainpc = "dispatch"
  /\ AllFinished(pools[root])
  /\ \E k \in 1..Len(pools[root]) : \E j \in (k+1)..Len(pools[root]) :
       /\ pools[root][k].st = "failed"
       /\ pools[root][j].st = "done"
       /\ pools[root][j].list # << >>

\* --------------------------------------------------------------------- C15

\* The lists of each of the six categories.
C15_Categories ==
  << Range(ImageBuckets), Range(AudioBuckets), Range(VideoBuckets),
     Range(DocumentBuckets), { "ARCHIVES" }, { "MY_OTHER" } >>

\* The tree below the root holds, outside the folders scan skips, a file of
\* each category.
C15_HasEveryCategory ==
  \A c \in 1..Len(C15_Categories) :
    \E p \in DOMAIN scenario.files :
      /\ IsBelow(p, root)
      /\ ~ C8_InOrBelow(root, C8_CodeNames, Parent(p))
      /\ BucketOf(Name(p)) \in C15_Categories[c]

C15_Folders(last) ==
  { result_folder \o << n >> :
      n \in { N_images, N_audio, N_video, N_documents, N_archives, last } }

\* C15 (as amended): after a run over a tree with a file of each category,
\* result/images, result/audio, result/video, result/documents,
\* result/archives and result/MY_OTHER exist, whatever the order in which
\* the tasks ran.
C15_SixFoldersExist ==
  (RunOver /\ C15_HasEveryCategory) => C15_Folders(N_MY_OTHER) \subseteq fsDirs

\* C15 (as claimed): the same with result/other as the sixth folder.
C15_SixFoldersWithOther ==
  (RunOver /\ C15_HasEveryCategory) => C15_Folders(N_other) \subseteq fsDirs

\* A run over a tree with a file of each category is over and has moved
\* the file without extension to result/MY_OTHER.
C15_Witness ==
  /\ RunOver
  /\ C15_HasEveryCategory
  /\ C15_Folders(N_MY_OTHER) \subseteq fsDirs
  /\ \E q \in DOMAIN fsFiles : Parent(q) = result_folder \o << N_MY_OTHER >>

\* --------------------------------------------------------------------- C16

\* The paths a step appends to the list b.
C16_New(b) == { buckets'[b][j] : j \in (Len(buckets[b]) + 1)..Len(buckets'[b]) }

\* What follows the last dot of a name, as it is spelled.
C16_Spelled(name) == SubSeq(name, LastDot(name) + 1, Len(name))

\* C16: whatever was scanned before, a file whose extension is a spelling,
\* in upper or lower case letters, of an extension of the table is appended
\* to the list the table gives for the upper-case spelling, and to no
\* other list.
C16_CaseInsensitive ==
  [][ \A b \in BucketNames : \A q \in C16_New(b) :
        \A i \in 1..Len(RegisterTable) :
          (LastDot(Name(q)) > 1
             /\ C16_Spelled(Name(q)) \in Spellings(RegisterTable[i][1])) =>
            /\ b = RegisterTable[i][2]
            /\ \A o \in BucketNames \ { b } : C16_New(o) = {} ]_vars

\* A file with an extension of the table in mixed case is in the list of
\* its category, after another file was classified.
C16_Witness ==
  \E b \in BucketNames \ { "MY_OTHER" } : \E j \in 1..Len(buckets[b]) :
    LET w == C16_Spelled(Name(buckets[b][j])) IN
    /\ w # Upper(w)
    /\ w # [ i \in 1..Len(w) |-> LowerChar(w[i]) ]
    /\ \E o \in BucketNames : \E k \in 1..Len(buckets[o]) :
         buckets[o][k] # buckets[b][j]

\* --------------------------------------------------------------------- C17

\* The extension of a name in upper case, empty when the name has none: no
\* dot, or no dot but the first or the last character.
C17_Ext(name) ==
  IF LastDot(name) <= 1 \/ LastDot(name) = Len(name) THEN << >>
  ELSE Upper(C16_Spelled(name))

\* C17: a file without extension is appended to MY_OTHER and UNKNOWN stays
\* as it is; a file with an extension that is no key of the table is
\* appended to MY_OTHER and UNKNOWN gains that extension in upper case;
\* UNKNOWN never holds the empty string or a key of the table.
C17_OtherAndUnknown ==
  [][ /\ \A b \in BucketNames : \A q \in C16_New(b) :
           /\ C17_Ext(Name(q)) = << >> =>
                b = "MY_OTHER" /\ UNKNOWN' = UNKNOWN
           /\ (C17_Ext(Name(q)) # << >>
                 /\ C17_Ext(Name(q)) \notin RegisteredKeys) =>
                b = "MY_OTHER" /\ UNKNOWN' = UNKNOWN \cup { C17_Ext(Name(q)) }
      /\ << >> \notin UNKNOWN'
      /\ UNKNOWN' \cap RegisteredKeys = {} ]_vars

\* MY_OTHER holds a file without extension and a file with an extension,
\* and UNKNOWN holds that extension and nothing else.
C17_Witness ==
  \E j \in 1..Len(buckets["MY_OTHER"]) : \E k \in 1..Len(buckets["MY_OTHER"]) :
    /\ C17_Ext(Name(buckets["MY_OTHER"][j])) = << >>
    /\ C17_Ext(Name(buckets["MY_OTHER"][k])) # << >>
    /\ UNKNOWN = { C17_Ext(Name(buckets["MY_OTHER"][k])) }

\* --------------------------------------------------------------------- C18
\* C18: normalize(normalize(x)) = normalize(x) for every file name x.
C18_NormalizeIdempotent == call.pc = "twice" => call.again = call.ret

\* normalize was called on the result of a call that had transliterated a
\* letter (into two letters, or into an apostrophe then made an underscore)
\* of a name with a dot.
C18_Witness ==
  /\ call.pc = "twice"
  /\ "." \in Range(call.name)
  /\ \/ Len(call.ret) > Len(call.name)
     \/ "cyr_soft" \in Range(call.name)

\* --------------------------------------------------------------------- C19

\* The stem of the name given, transliterated.
C19_Transliterated == Translate(SplitExt(call.name)[1])

\* The stem of what normalize returned: the result without the extension.
C19_Stem == SubSeq(call.ret, 1, Len(call.ret) - Len(SplitExt(call.name)[2]))

\* C19 (as amended): the stem normalize returns has, place by place, the
\* word characters of the transliterated stem and one underscore for every
\* other character of it: a run of k such characters gives k underscores.
C19_UnderscorePerCharacter ==
  call.pc \in { "once", "twice" } =>
    /\ Len(C19_Stem) = Len(C19_Transliterated)
    /\ \A i \in 1..Len(C19_Stem) :
         C19_Stem[i] = IF IsWordChar(C19_Transliterated[i])
                       THEN C19_Transliterated[i] ELSE "_"

\* C19 (as claimed): the stem normalize returns is the transliterated stem
\* with every maximal run of characters that are no word characters
\* replaced by a single underscore.
C19_UnderscorePerRun ==
  call.pc \in { "once", "twice" } =>
    C19_Stem = CollapseRuns(C19_Transliterated, FALSE)

\* normalize has returned for a stem with two characters in a row that are
\* no word characters, between word characters.
C19_Witness ==
  /\ call.pc = "once"
  /\ \E i \in 2..(Len(C19_Transliterated) - 2) :
       /\ IsWordChar(C19_Transliterated[i - 1])
       /\ ~ IsWordChar(C19_Transliterated[i])
       /\ ~ IsWordChar(C19_Transliterated[i + 1])
       /\ IsWordChar(C19_Transliterated[i + 2])

\* --------------------------------------------------------------------- C20

\* The folders process_folder gives to its six category tasks.
C20_Destinations ==
  { CategoryTasks(buckets)[k].target : k \in 1..Len(CategoryTasks(buckets)) }

\* The path lies below one of them.
C20_Placed(q) == \E t \in C20_Destinations : IsBelow(q, t)

\* C20: the names scan does not enter include the name of every folder a
\* category task moves or unpacks into; scan appends to no list a path
\* below such a folder of result/, and no task is given one.
C20_SkipCoversDestinations ==
  [][ /\ \A t \in C20_Destinations : Name(t) \in ScanSkipNames
      /\ \A b \in BucketNames : \A q \in C16_New(b) : ~ C20_Placed(q)
      /\ \A d \in DOMAIN pools' : \A k \in 1..Len(pools'[d]) :
           \A q \in Range(pools'[d][k].list) : ~ C20_Placed(q) ]_vars

\* A later run over a tree that holds result/: its scan has entered result/
\* and returned, and a file an earlier run placed is in no list.
C20_Witness ==
  /\ runs >= 1
  /\ mainpc = "dispatch"
  /\ result_folder \in Range(FOLDERS)
  /\ \E q \in DOMAIN fsFiles : C20_Placed(q) /\ Count(q) = 0

====
